---- MODULE Spec2Model ----
(***************************************************************************)
(* Model of dags/utils/backfill.py: the two backfill parameter classes,    *)
(* AirflowBackfillParams and BigQueryETLBackfillParams, their validation   *)
(* methods and the command lists they render.                              *)
(*                                                                         *)
(* A Python str is a sequence of one-character strings, so that parsing,   *)
(* joining and formatting are computed on the characters.  An optional     *)
(* value (str | None, int | None, list | None) is a sequence of length 0   *)
(* (None) or 1 (the value).                                                *)
(***************************************************************************)
EXTENDS Integers, Sequences, FiniteSets, TLC

VARIABLES self, orig, last, first_cmd, renders, date_status, regex_status

vars == <<self, orig, last, first_cmd, renders, date_status, regex_status>>

(***************************************************************************)
(* Optional values.                                                        *)
(***************************************************************************)
None == <<>>

Some(v) == <<v>>

IsNone(o) == o = <<>>

Val(o) == o[1]

(***************************************************************************)
(* Literal tokens of the source.                                           *)
(***************************************************************************)
T_airflow ==
    <<"a", "i", "r", "f", "l", "o", "w">>

T_tasks ==
    <<"t", "a", "s", "k", "s">>

T_clear ==
    <<"c", "l", "e", "a", "r">>

T_timeout ==
    <<"t", "i", "m", "e", "o", "u", "t">>

T_60 ==
    <<"6", "0">>

T_y ==
    <<"-", "y">>

T_t ==
    <<"-", "t">>

T_dags ==
    <<"d", "a", "g", "s">>

T_backfill ==
    <<"b", "a", "c", "k", "f", "i", "l", "l">>

T_donot_pickle ==
    <<"-", "-", "d", "o", "n", "o", "t", "-", "p", "i", "c", "k", "l", "e">>

T_dry_run ==
    <<"-", "-", "d", "r", "y", "-", "r", "u", "n">>

T_s ==
    <<"-", "s">>

T_e ==
    <<"-", "e">>

T_bqetl ==
    <<"s", "c", "r", "i", "p", "t", "/", "b", "q", "e", "t", "l">>

T_query ==
    <<"q", "u", "e", "r", "y">>

T_start_date_eq ==
    <<"-", "-", "s", "t", "a", "r", "t", "-", "d", "a", "t", "e", "=">>

T_end_date_eq ==
    <<"-", "-", "e", "n", "d", "-", "d", "a", "t", "e", "=">>

T_exclude_eq ==
    <<"-", "-", "e", "x", "c", "l", "u", "d", "e", "=">>

T_parallelism_eq ==
    <<"-", "-", "p", "a", "r", "a", "l", "l", "e", "l", "i", "s", "m", "=">>

T_no_partition ==
    <<"-", "-", "n", "o", "-", "p", "a", "r", "t", "i", "t", "i", "o", "n">>

T_None ==
    <<"N", "o", "n", "e">>

(***************************************************************************)
(* Characters and decimal numerals.                                        *)
(***************************************************************************)
DigitChars == <<"0", "1", "2", "3", "4", "5", "6", "7", "8", "9">>

IsDigit(c) == \E d \in 1..10 : DigitChars[d] = c

DigitVal(c) == (CHOOSE d \in 1..10 : DigitChars[d] = c) - 1

AllDigits(s) == \A i \in 1..Len(s) : IsDigit(s[i])

\* int() of a short string of digits (at most four are ever passed)
RECURSIVE DigitsToInt(_)
DigitsToInt(s) ==
    IF s = <<>> THEN 0
    ELSE 10 * DigitsToInt(SubSeq(s, 1, Len(s) - 1)) + DigitVal(s[Len(s)])

\* str() / format() of an int
RECURSIVE NatToStr(_)
NatToStr(n) ==
    IF n < 10 THEN <<DigitChars[n + 1]>>
    ELSE NatToStr(n \div 10) \o <<DigitChars[(n % 10) + 1]>>

IntToStr(n) == IF n < 0 THEN <<"-">> \o NatToStr(0 - n) ELSE NatToStr(n)

\* str() of a str is that str
PyStr(s) == s

\* str() / format() of a value of type str | None
PyStrOpt(o) == IF IsNone(o) THEN T_None ELSE Val(o)

\* truth value of an optional str or list: None and the empty one are false
Truthy(o) == ~IsNone(o) /\ Val(o) # <<>>

\* truth value of an optional int: None and 0 are false
TruthyInt(o) == ~IsNone(o) /\ Val(o) # 0

\* sep.join(items)
RECURSIVE Join(_, _)
Join(sep, items) ==
    IF items = <<>> THEN <<>>
    ELSE IF Len(items) = 1 THEN items[1]
    ELSE items[1] \o sep \o Join(sep, Tail(items))

(***************************************************************************)
(* datetime.datetime.fromisoformat and the comparison of two datetimes.    *)
(* Modelled forms: YYYY-MM-DD, optionally followed by one separator        *)
(* character and HH:MM, optionally followed by a UTC offset +HH:MM or      *)
(* -HH:MM.  Forms with seconds, the basic (undashed) format and week dates *)
(* are not modelled; the inputs of this model do not use them.             *)
(* The result is [exc |-> "ValueError"] or                                 *)
(* [exc |-> "none", day, minute, aware, offset].                           *)
(***************************************************************************)
IsLeap(y) == (y % 4 = 0) /\ ((y % 100 # 0) \/ (y % 400 = 0))

DaysInMonth(y, m) ==
    IF m = 2 THEN (IF IsLeap(y) THEN 29 ELSE 28)
    ELSE IF m \in {4, 6, 9, 11} THEN 30
    ELSE 31

RECURSIVE DaysBeforeMonth(_, _)
DaysBeforeMonth(y, m) ==
    IF m = 1 THEN 0 ELSE DaysBeforeMonth(y, m - 1) + DaysInMonth(y, m - 1)

\* proleptic Gregorian ordinal, 0001-01-01 is day 1
Ordinal(y, m, d) ==
    LET p == y - 1
    IN  p * 365 + (p \div 4) - (p \div 100) + (p \div 400)
          + DaysBeforeMonth(y, m) + d

DateShapeOk(s) ==
    /\ AllDigits(SubSeq(s, 1, 4))
    /\ s[5] = "-"
    /\ AllDigits(SubSeq(s, 6, 7))
    /\ s[8] = "-"
    /\ AllDigits(SubSeq(s, 9, 10))

\* HH:MM at positions i .. i+4
ClockShapeOk(s, i) ==
    /\ AllDigits(SubSeq(s, i, i + 1))
    /\ s[i + 2] = ":"
    /\ AllDigits(SubSeq(s, i + 3, i + 4))

ClockHour(s, i) == DigitsToInt(SubSeq(s, i, i + 1))

ClockMinute(s, i) == DigitsToInt(SubSeq(s, i + 3, i + 4))

ClockRangeOk(s, i) == ClockHour(s, i) <= 23 /\ ClockMinute(s, i) <= 59

fromisoformat(s) ==
    LET n      == Len(s)
        bad    == [exc |-> "ValueError"]
        y      == DigitsToInt(SubSeq(s, 1, 4))
        m      == DigitsToInt(SubSeq(s, 6, 7))
        d      == DigitsToInt(SubSeq(s, 9, 10))
        dateOk == /\ DateShapeOk(s)
                  /\ y >= 1
                  /\ m \in 1..12
                  /\ d >= 1 /\ d <= DaysInMonth(y, m)
        timeOk == ClockShapeOk(s, 12) /\ ClockRangeOk(s, 12)
        offAbs == ClockHour(s, 18) * 60 + ClockMinute(s, 18)
        offOk  == /\ s[17] \in {"+", "-"}
                  /\ ClockShapeOk(s, 18)
                  /\ offAbs < 1440
    IN  IF n \notin {10, 16, 22} THEN bad
        ELSE IF ~dateOk THEN bad
        ELSE IF n = 10
          THEN [exc |-> "none", day |-> Ordinal(y, m, d), minute |-> 0,
                aware |-> FALSE, offset |-> 0]
        ELSE IF ~timeOk THEN bad
        ELSE IF n = 16
          THEN [exc |-> "none", day |-> Ordinal(y, m, d),
                minute |-> ClockHour(s, 12) * 60 + ClockMinute(s, 12),
                aware |-> FALSE, offset |-> 0]
        ELSE IF ~offOk THEN bad
        ELSE [exc |-> "none", day |-> Ordinal(y, m, d),
              minute |-> ClockHour(s, 12) * 60 + ClockMinute(s, 12),
              aware |-> TRUE,
              offset |-> IF s[17] = "-" THEN 0 - offAbs ELSE offAbs]

\* the instant a datetime is compared by: its own clock reading when naive,
\* its UTC clock reading when aware; <<day, minute of day>>
Instant(dt) ==
    LET t == dt.minute - dt.offset
    IN  IF t < 0 THEN <<dt.day - 1, t + 1440>>
        ELSE IF t >= 1440 THEN <<dt.day + 1, t - 1440>>
        ELSE <<dt.day, t>>

\* datetime.__gt__: ordering a naive and an aware datetime is a TypeError
datetime_gt(a, b) ==
    IF a.aware # b.aware THEN [exc |-> "TypeError"]
    ELSE LET x == Instant(a)
             y == Instant(b)
         IN  [exc |-> "none",
              ret |-> (x[1] > y[1]) \/ (x[1] = y[1] /\ x[2] > y[2])]

\* sre_constants.MAXREPEAT on a 64-bit build, 2^32 - 1, as a numeral
MAXREPEAT_DIGITS ==
    <<"4", "2", "9", "4", "9", "6", "7", "2", "9", "5">>

(***************************************************************************)
(* re.compile.  The pattern parser is modelled for literals, ".", groups   *)
(* "(" ")", character sets "[" "]" with ranges, and the repeats "*" and    *)
(* "{m}" "{m,}" "{,n}" "{m,n}".  A pattern that uses any other syntax      *)
(* ("?", "+", "|", "^", "$", a backslash, a non-ASCII character) is        *)
(* reported as "unmodelled" and is never used as an input.                 *)
(* The result is "ok", "re.error" or "OverflowError".                      *)
(***************************************************************************)
\* the printable ASCII characters, code 32 (space) to 126 (tilde), in order;
\* the place of code 96 (grave accent, which the TLA+ lexer rejects) is kept
\* by an empty string, so that character is not printable here
Printable ==
    <<" ", "!", "\"", "#", "$", "%", "&", "'", "(", ")", "*", "+",
       ",", "-", ".", "/", "0", "1", "2", "3", "4", "5", "6", "7",
       "8", "9", ":", ";", "<", "=", ">", "?", "@", "A", "B", "C",
       "D", "E", "F", "G", "H", "I", "J", "K", "L", "M", "N", "O",
       "P", "Q", "R", "S", "T", "U", "V", "W", "X", "Y", "Z", "[",
       "\\", "]", "^", "_", "", "a", "b", "c", "d", "e", "f", "g",
       "h", "i", "j", "k", "l", "m", "n", "o", "p", "q", "r", "s",
       "t", "u", "v", "w", "x", "y", "z", "{", "|", "}", "~">>

IsPrintable(c) == \E k \in 1..Len(Printable) : Printable[k] = c

Ord(c) == 31 + (CHOOSE k \in 1..Len(Printable) : Printable[k] = c)

UnmodelledChars == {"?", "+", "|", "^", "$", "\\"}

\* index of the first character at or after i that is not a digit
RECURSIVE SkipDigits(_, _)
SkipDigits(p, i) ==
    IF i <= Len(p) /\ IsDigit(p[i]) THEN SkipDigits(p, i + 1) ELSE i

RECURSIVE StripZeros(_)
StripZeros(ds) ==
    IF Len(ds) > 1 /\ ds[1] = "0" THEN StripZeros(Tail(ds)) ELSE ds

\* a >= b for two numerals of the same length
RECURSIVE SameLenGe(_, _)
SameLenGe(a, b) ==
    IF a = <<>> THEN TRUE
    ELSE IF DigitVal(a[1]) # DigitVal(b[1]) THEN DigitVal(a[1]) > DigitVal(b[1])
    ELSE SameLenGe(Tail(a), Tail(b))

\* int(a) >= int(b) for two non-empty decimal numerals of any length
NumeralGe(a, b) ==
    LET x == StripZeros(a)
        y == StripZeros(b)
    IN  IF Len(x) # Len(y) THEN Len(x) > Len(y) ELSE SameLenGe(x, y)

\* the body of a character set from position j on; nonempty is whether the
\* set already has a member.  Returns the index after the closing "]", or 0
\* for an unterminated set or a bad character range.
RECURSIVE parse_set(_, _, _)
parse_set(p, j, nonempty) ==
    IF j > Len(p) THEN 0
    ELSE IF p[j] = "]" /\ nonempty THEN j + 1
    ELSE IF j + 1 <= Len(p) /\ p[j + 1] = "-"
      THEN IF j + 2 > Len(p) THEN 0
           ELSE IF p[j + 2] = "]" THEN j + 3
           ELSE IF Ord(p[j + 2]) < Ord(p[j]) THEN 0
           ELSE parse_set(p, j + 3, TRUE)
    ELSE parse_set(p, j + 1, TRUE)

\* prev is what the last parsed item is: "none" (start of a pattern or of
\* a group), "atom" (something repeatable) or "repeat"
RECURSIVE parse_pattern(_, _, _, _)
parse_pattern(p, i, depth, prev) ==
    IF i > Len(p) THEN (IF depth > 0 THEN "re.error" ELSE "ok")
    ELSE IF p[i] = "(" THEN parse_pattern(p, i + 1, depth + 1, "none")
    ELSE IF p[i] = ")"
      THEN IF depth = 0 THEN "re.error"
           ELSE parse_pattern(p, i + 1, depth - 1, "atom")
    ELSE IF p[i] = "["
      THEN LET j == parse_set(p, i + 1, FALSE)
           IN  IF j = 0 THEN "re.error"
               ELSE parse_pattern(p, j, depth, "atom")
    ELSE IF p[i] = "*"
      THEN IF prev # "atom" THEN "re.error"
           ELSE parse_pattern(p, i + 1, depth, "repeat")
    ELSE IF p[i] = "{"
      THEN LET k     == SkipDigits(p, i + 1)
               lo    == SubSeq(p, i + 1, k - 1)
               comma == k <= Len(p) /\ p[k] = ","
               k2    == IF comma THEN SkipDigits(p, k + 1) ELSE k
               hi    == IF comma THEN SubSeq(p, k + 1, k2 - 1) ELSE lo
           IN  IF i + 1 <= Len(p) /\ p[i + 1] = "}"
                 THEN parse_pattern(p, i + 1, depth, "atom")
               ELSE IF ~(k2 <= Len(p) /\ p[k2] = "}")
                 THEN parse_pattern(p, i + 1, depth, "atom")
               ELSE IF lo # <<>> /\ NumeralGe(lo, MAXREPEAT_DIGITS)
                 THEN "OverflowError"
               ELSE IF hi # <<>> /\ NumeralGe(hi, MAXREPEAT_DIGITS)
                 THEN "OverflowError"
               ELSE IF hi # <<>> /\ lo # <<>> /\ ~NumeralGe(hi, lo)
                 THEN "re.error"
               ELSE IF prev # "atom" THEN "re.error"
               ELSE parse_pattern(p, k2 + 1, depth, "repeat")
    ELSE parse_pattern(p, i + 1, depth, "atom")

re_compile(p) ==
    IF \E i \in 1..Len(p) : p[i] \in UnmodelledChars \/ ~IsPrintable(p[i])
      THEN "unmodelled"
    ELSE parse_pattern(p, 1, 0, "none")

(***************************************************************************)
(* The result of a method call: the exception it raises ("none" when it    *)
(* returns), the value it returns, and the instance as the call leaves it. *)
(***************************************************************************)
Returns(s, v) == [exc |-> "none", ret |-> v, self |-> s]

Raises(s, e) == [exc |-> e, ret |-> <<>>, self |-> s]

\* fromisoformat applied to a value of type str | None
fromisoformat_arg(o) ==
    IF IsNone(o) THEN [exc |-> "TypeError"] ELSE fromisoformat(Val(o))

(***************************************************************************)
(* Faulty variants of the methods, used to show that each checked property *)
(* depends on the code it is about.                                        *)
(***************************************************************************)
\* validate_date_range with >= in place of >: equal dates are rejected
validate_date_range_rejects_equal(s) ==
    LET start_date == fromisoformat_arg(Some(s.start_date))
        end_date   == fromisoformat_arg(Some(s.end_date))
    IN  IF start_date.exc # "none" THEN Raises(s, start_date.exc)
        ELSE IF end_date.exc # "none" THEN Raises(s, end_date.exc)
        ELSE LET gt == datetime_gt(start_date, end_date)
             IN  IF gt.exc # "none" THEN Raises(s, gt.exc)
                 ELSE IF gt.ret \/ Instant(start_date) = Instant(end_date)
                   THEN Raises(s, "ValueError")
                 ELSE Returns(s, <<>>)

\* the Airflow command with up to three slips: the timeout wrapper appended
\* instead of prepended, "-y" added on a dry run too, and the filter
\* rendered whenever it is not None
airflow_command_variant(s, append_timeout, always_confirm, filter_not_none) ==
    LET has_filter == IF filter_not_none THEN ~IsNone(s.task_regex)
                      ELSE Truthy(s.task_regex)
        filter     == IF has_filter THEN <<T_t, PyStrOpt(s.task_regex)>>
                      ELSE <<>>
        confirm    == IF always_confirm \/ ~s.dry_run THEN <<T_y>> ELSE <<>>
        wrapped(c) == IF ~s.dry_run THEN c
                      ELSE IF append_timeout THEN c \o <<T_timeout, T_60>>
                      ELSE <<T_timeout, T_60>> \o c
        head       == IF s.clear
                        THEN wrapped(<<T_airflow, T_tasks, T_clear>>) \o confirm
                      ELSE <<T_airflow, T_dags, T_backfill, T_donot_pickle>>
                             \o (IF s.dry_run THEN <<T_dry_run>> ELSE <<>>)
    IN  head \o filter \o <<T_s, s.start_date, T_e, s.end_date, s.dag_name>>

generate_appends_timeout(s) ==
    Returns(s, airflow_command_variant(s, TRUE, FALSE, FALSE))

generate_always_confirms(s) ==
    Returns(s, airflow_command_variant(s, FALSE, TRUE, FALSE))

generate_renders_empty_filter(s) ==
    Returns(s, airflow_command_variant(s, FALSE, FALSE, TRUE))

\* rendering that stores str(task_regex) back into the instance
generate_overwrites_task_regex(s) ==
    [exc |-> "none",
     ret |-> airflow_command_variant(s, FALSE, FALSE, FALSE),
     self |-> [s EXCEPT !.task_regex = Some(PyStrOpt(s.task_regex))]]

(***************************************************************************)
(* AirflowBackfillParams                                                   *)
(***************************************************************************)
AirflowBackfillParams_validate_date_range(s) ==
    LET start_date == fromisoformat_arg(Some(s.start_date))
        end_date   == fromisoformat_arg(Some(s.end_date))
    IN  IF start_date.exc # "none" THEN Raises(s, start_date.exc)
        ELSE IF end_date.exc # "none" THEN Raises(s, end_date.exc)
        ELSE LET gt == datetime_gt(start_date, end_date)
             IN  IF gt.exc # "none" THEN Raises(s, gt.exc)
                 ELSE IF gt.ret THEN Raises(s, "ValueError")
                 ELSE Returns(s, <<>>)

AirflowBackfillParams_validate_regex_pattern(s) ==
    IF Truthy(s.task_regex)
      THEN LET c == re_compile(Val(s.task_regex))
           IN  IF c = "ok" THEN Returns(s, <<>>)
               ELSE IF c = "re.error" THEN Raises(s, "ValueError")
               ELSE Raises(s, c)
    ELSE Returns(s, <<>>)

AirflowBackfillParams_generate_backfill_command(s) ==
    LET cmd0         == <<T_airflow>>
        timeout_list == <<T_timeout, T_60>>
        filter(cmd)  == IF Truthy(s.task_regex)
                          THEN cmd \o <<T_t, PyStrOpt(s.task_regex)>>
                        ELSE cmd
        cleared      == LET cmd1 == cmd0 \o <<T_tasks, T_clear>>
                            cmd2 == IF s.dry_run THEN timeout_list \o cmd1
                                    ELSE Append(cmd1, T_y)
                        IN  filter(cmd2)
        backfilled   == LET cmd1 == cmd0 \o <<T_dags, T_backfill, T_donot_pickle>>
                            cmd2 == IF s.dry_run THEN Append(cmd1, T_dry_run)
                                    ELSE cmd1
                        IN  filter(cmd2)
        cmd3         == IF s.clear THEN cleared ELSE backfilled
    IN  Returns(s, cmd3 \o <<T_s, PyStr(s.start_date), T_e, PyStr(s.end_date),
                             PyStr(s.dag_name)>>)

(***************************************************************************)
(* BigQueryETLBackfillParams                                               *)
(***************************************************************************)
BigQueryETLBackfillParams_validate_date_range(s) ==
    LET start_date == fromisoformat_arg(Some(s.start_date))
        end_date   == fromisoformat_arg(s.end_date)
    IN  IF start_date.exc # "none" THEN Raises(s, start_date.exc)
        ELSE IF end_date.exc # "none" THEN Raises(s, end_date.exc)
        ELSE LET gt == datetime_gt(start_date, end_date)
             IN  IF gt.exc # "none" THEN Raises(s, gt.exc)
                 ELSE IF gt.ret THEN Raises(s, "ValueError")
                 ELSE Returns(s, <<>>)

\* the BigQuery command with up to two slips: the table qualified by the
\* project, and --dry-run placed after --parallelism
bigquery_command_variant(s, with_project, dry_run_late) ==
    LET table == (IF with_project THEN s.project_id \o <<".">> ELSE <<>>)
                   \o s.dataset_id \o <<".">> \o s.destination_table
        dry   == IF s.dry_run THEN <<T_dry_run>> ELSE <<>>
        par   == IF TruthyInt(s.parallelism)
                   THEN <<T_parallelism_eq \o IntToStr(Val(s.parallelism))>>
                 ELSE <<>>
    IN  <<T_bqetl, T_query, T_backfill, table, T_start_date_eq \o s.start_date>>
          \o (IF Truthy(s.end_date)
                THEN <<T_end_date_eq \o Val(s.end_date)>> ELSE <<>>)
          \o (IF Truthy(s.excludes)
                THEN <<T_exclude_eq \o Join(<<",">>, Val(s.excludes))>>
              ELSE <<>>)
          \o (IF dry_run_late THEN par \o dry ELSE dry \o par)
          \o (IF s.no_partition THEN <<T_no_partition>> ELSE <<>>)

generate_qualifies_project(s) ==
    Returns(s, bigquery_command_variant(s, TRUE, FALSE))

generate_dry_run_late(s) ==
    Returns(s, bigquery_command_variant(s, FALSE, TRUE))

\* rendering that validates the date range first and lets its error out
generate_revalidates(s) ==
    LET v == BigQueryETLBackfillParams_validate_date_range(s)
    IN  IF v.exc # "none" THEN Raises(s, v.exc)
        ELSE Returns(s, bigquery_command_variant(s, FALSE, FALSE))

BigQueryETLBackfillParams_generate_backfill_command(s) ==
    LET cmd0 == <<T_bqetl, T_query, T_backfill,
                  PyStr(s.dataset_id) \o <<".">> \o PyStr(s.destination_table),
                  T_start_date_eq \o PyStr(s.start_date)>>
        cmd1 == IF Truthy(s.end_date)
                  THEN Append(cmd0, T_end_date_eq \o PyStrOpt(s.end_date))
                ELSE cmd0
        cmd2 == IF Truthy(s.excludes)
                  THEN Append(cmd1, T_exclude_eq \o Join(<<",">>, Val(s.excludes)))
                ELSE cmd1
        cmd3 == IF s.dry_run THEN Append(cmd2, T_dry_run) ELSE cmd2
        cmd4 == IF TruthyInt(s.parallelism)
                  THEN Append(cmd3, T_parallelism_eq \o IntToStr(Val(s.parallelism)))
                ELSE cmd3
        cmd5 == IF s.no_partition THEN Append(cmd4, T_no_partition) ELSE cmd4
    IN  Returns(s, cmd5)

(***************************************************************************)
(* Field values the instances are constructed from.                        *)
(***************************************************************************)
D_jan01 ==
    <<"2", "0", "2", "3", "-", "0", "1", "-", "0", "1">>

D_jan02 ==
    <<"2", "0", "2", "3", "-", "0", "1", "-", "0", "2">>

D_feb01 ==
    <<"2", "0", "2", "3", "-", "0", "2", "-", "0", "1">>

D_feb30 ==
    <<"2", "0", "2", "3", "-", "0", "2", "-", "3", "0">>

D_jan01_utc ==
    <<"2", "0", "2", "3", "-", "0", "1", "-", "0", "1", "T", "0", "0", ":", "0", "0", "+", "0", "0", ":", "0", "0">>

D_jan01_plus5 ==
    <<"2", "0", "2", "3", "-", "0", "1", "-", "0", "1", "T", "0", "5", ":", "0", "0", "+", "0", "5", ":", "0", "0">>

D_jan31 ==
    <<"2", "0", "2", "3", "-", "0", "1", "-", "3", "1">>

N_my_workflow ==
    <<"m", "y", "_", "w", "o", "r", "k", "f", "l", "o", "w">>

N_timeout ==
    <<"t", "i", "m", "e", "o", "u", "t">>

N_events ==
    <<"e", "v", "e", "n", "t", "s">>

N_telemetry ==
    <<"t", "e", "l", "e", "m", "e", "t", "r", "y">>

N_proj_a ==
    <<"m", "o", "z", "-", "f", "x", "-", "d", "a", "t", "a">>

N_proj_b ==
    <<"s", "a", "n", "d", "b", "o", "x">>

R_load ==
    <<"l", "o", "a", "d", "_", ".", "*">>

R_invalid ==
    <<"[", "i", "n", "v", "a", "l", "i", "d", "(">>

R_overflow ==
    <<"a", "{", "4", "2", "9", "4", "9", "6", "7", "2", "9", "6", "}">>

R_group ==
    <<"(", "a", ")", "*">>

\* longest excludes list constructed
MaxExcludes == 2

\* largest parallelism constructed
MaxParallelism == 10

\* number of renderings of one instance that are followed
MaxRenders == 2

\* date strings: three plain dates, a day that does not exist, two spellings
\* of one instant with a UTC offset, and the empty string
AirflowDates ==
    {D_jan01, D_jan02, D_feb01, D_feb30, D_jan01_utc, D_jan01_plus5, <<>>}

DagNames == {N_my_workflow, N_timeout}

TaskRegexes ==
    {None, Some(<<>>), Some(R_load), Some(R_invalid), Some(R_overflow),
     Some(R_group)}

BigQueryStartDates == {D_jan01, D_feb01, D_feb30, D_jan01_utc}

BigQueryEndDates ==
    {None, Some(<<>>), Some(D_jan01), Some(D_jan31), Some(D_jan01_utc)}

ProjectIds == {N_proj_a, N_proj_b}

ExcludeNames == {<<"a">>, <<"b">>}

ExcludeLists == UNION {[1..n -> ExcludeNames] : n \in 0..MaxExcludes}

Excludes == {None} \cup {Some(l) : l \in ExcludeLists}

Parallelisms == {None} \cup {Some(n) : n \in 0..MaxParallelism}

AirflowBackfillParams ==
    [kind : {"AirflowBackfillParams"},
     start_date : AirflowDates,
     end_date : AirflowDates,
     dag_name : DagNames,
     clear : BOOLEAN,
     dry_run : BOOLEAN,
     task_regex : TaskRegexes]

BigQueryETLBackfillParams ==
    [kind : {"BigQueryETLBackfillParams"},
     start_date : BigQueryStartDates,
     destination_table : {N_events},
     dataset_id : {N_telemetry},
     project_id : ProjectIds,
     dry_run : BOOLEAN,
     no_partition : BOOLEAN,
     end_date : BigQueryEndDates,
     excludes : Excludes,
     parallelism : Parallelisms]

IsAirflow == self.kind = "AirflowBackfillParams"

IsBigQuery == self.kind = "BigQueryETLBackfillParams"

(***************************************************************************)
(* State: the instance (self), its fields as constructed (orig), the last  *)
(* call and its outcome (last), the command the first rendering returned   *)
(* (first_cmd), the number of renderings so far (renders), and the outcome *)
(* of the latest validation of each kind ("never", "ok" or "failed").      *)
(***************************************************************************)
Init ==
    /\ self \in AirflowBackfillParams \cup BigQueryETLBackfillParams
    /\ orig = self
    /\ last = [op |-> "init", exc |-> "none", ret |-> <<>>]
    /\ first_cmd = None
    /\ renders = 0
    /\ date_status = "never"
    /\ regex_status = "never"

Status(r) == IF r.exc = "none" THEN "ok" ELSE "failed"

Called(op, r) == [op |-> op, exc |-> r.exc, ret |-> r.ret]

Rendered(r) ==
    IF IsNone(first_cmd) /\ r.exc = "none" THEN Some(r.ret) ELSE first_cmd

AirflowValidateDateRange ==
    /\ IsAirflow
    /\ LET r == AirflowBackfillParams_validate_date_range(self)
       IN  /\ self' = r.self
           /\ last' = Called("validate_date_range", r)
           /\ date_status' = Status(r)
    /\ UNCHANGED <<orig, first_cmd, renders, regex_status>>

AirflowValidateRegexPattern ==
    /\ IsAirflow
    /\ LET r == AirflowBackfillParams_validate_regex_pattern(self)
       IN  /\ self' = r.self
           /\ last' = Called("validate_regex_pattern", r)
           /\ regex_status' = Status(r)
    /\ UNCHANGED <<orig, first_cmd, renders, date_status>>

AirflowGenerateBackfillCommand ==
    /\ IsAirflow
    /\ renders < MaxRenders
    /\ renders' = renders + 1
    /\ LET r == AirflowBackfillParams_generate_backfill_command(self)
       IN  /\ self' = r.self
           /\ last' = Called("generate_backfill_command", r)
           /\ first_cmd' = Rendered(r)
    /\ UNCHANGED <<orig, date_status, regex_status>>

BigQueryValidateDateRange ==
    /\ IsBigQuery
    /\ LET r == BigQueryETLBackfillParams_validate_date_range(self)
       IN  /\ self' = r.self
           /\ last' = Called("validate_date_range", r)
           /\ date_status' = Status(r)
    /\ UNCHANGED <<orig, first_cmd, renders, regex_status>>

BigQueryGenerateBackfillCommand ==
    /\ IsBigQuery
    /\ renders < MaxRenders
    /\ renders' = renders + 1
    /\ LET r == BigQueryETLBackfillParams_generate_backfill_command(self)
       IN  /\ self' = r.self
           /\ last' = Called("generate_backfill_command", r)
           /\ first_cmd' = Rendered(r)
    /\ UNCHANGED <<orig, date_status, regex_status>>

Next ==
    \/ AirflowValidateDateRange
    \/ AirflowValidateRegexPattern
    \/ AirflowGenerateBackfillCommand
    \/ BigQueryValidateDateRange
    \/ BigQueryGenerateBackfillCommand

Spec == Init /\ [][Next]_vars

(***************************************************************************)
(* Properties.                                                             *)
(***************************************************************************)
Contains(seq, tok) == \E i \in 1..Len(seq) : seq[i] = tok

ContainsPair(seq, a, b) ==
    \E i \in 1..(Len(seq) - 1) : seq[i] = a /\ seq[i + 1] = b

StartsWith(seq, prefix) ==
    Len(seq) >= Len(prefix) /\ SubSeq(seq, 1, Len(prefix)) = prefix

After(op) == last.op = op

\* the end date of either entity as a value of type str | None
EndDate == IF IsAirflow THEN Some(self.end_date) ELSE self.end_date

BothDatesValid ==
    /\ ~IsNone(EndDate)
    /\ fromisoformat(self.start_date).exc = "none"
    /\ fromisoformat(Val(EndDate)).exc = "none"

\* two parsed datetimes are ordered only when both are naive or both are
\* aware; they are then ordered by their instants
ParsedLe(a, b) ==
    /\ a.aware = b.aware
    /\ \/ Instant(a)[1] < Instant(b)[1]
       \/ Instant(a)[1] = Instant(b)[1] /\ Instant(a)[2] <= Instant(b)[2]

ParsedGt(a, b) ==
    /\ a.aware = b.aware
    /\ \/ Instant(b)[1] < Instant(a)[1]
       \/ Instant(a)[1] = Instant(b)[1] /\ Instant(b)[2] < Instant(a)[2]

C2_MissingEndDateIsDateRangeError ==
    (After("validate_date_range") /\ IsBigQuery /\ IsNone(self.end_date)) =>
        last.exc = "ValueError"

\* C3: validate_regex_pattern() succeeds for every task_regex that is None,
\* empty or a regular expression that compiles, and for every non-empty
\* task_regex that fails to compile it fails with ValueError, no other
\* error kind reaching the caller.
C3_PatternErrorOnly ==
    After("validate_regex_pattern") =>
        IF ~Truthy(self.task_regex) \/ re_compile(Val(self.task_regex)) = "ok"
          THEN last.exc = "none"
        ELSE last.exc = "ValueError"

\* the command the C4 claim describes
AirflowCommandClaimed ==
    (IF self.clear /\ self.dry_run THEN <<T_timeout, T_60>> ELSE <<>>)
      \o <<T_airflow>>
      \o (IF self.clear
            THEN <<T_tasks, T_clear>>
                   \o (IF ~self.dry_run THEN <<T_y>> ELSE <<>>)
          ELSE <<T_dags, T_backfill, T_donot_pickle>>
                 \o (IF self.dry_run THEN <<T_dry_run>> ELSE <<>>))
      \o (IF ~IsNone(self.task_regex) /\ Val(self.task_regex) # <<>>
            THEN <<T_t, Val(self.task_regex)>> ELSE <<>>)
      \o <<T_s, self.start_date, T_e, self.end_date, self.dag_name>>

\* C4: for every combination of clear, dry_run and task_regex (None, empty,
\* non-empty) the Airflow generate_backfill_command() returns exactly:
\* "timeout","60" only if clear and dry_run; "airflow"; "tasks","clear"
\* (plus "-y" if not dry_run) when clear, or "dags","backfill",
\* "--donot-pickle" (plus "--dry-run" if dry_run) when not clear; "-t" and
\* the filter if the filter is set; and last "-s", start_date, "-e",
\* end_date, dag_name, the dates being the unmodified strings.
C4_AirflowCommandExact ==
    (After("generate_backfill_command") /\ IsAirflow) =>
        /\ last.exc = "none"
        /\ last.ret = AirflowCommandClaimed

C4_Witness ==
    /\ After("generate_backfill_command")
    /\ IsAirflow
    /\ self.clear /\ self.dry_run
    /\ last.ret = <<T_timeout, T_60, T_airflow, T_tasks, T_clear, T_t, R_load,
                    T_s, D_jan01, T_e, D_jan02, N_my_workflow>>

\* the command the C5 claim describes; end_date_rendered is the condition
\* under which the --end-date token appears
BigQueryCommandClaimed(end_date_rendered) ==
    <<T_bqetl, T_query, T_backfill,
      self.dataset_id \o <<".">> \o self.destination_table,
      T_start_date_eq \o self.start_date>>
      \o (IF end_date_rendered
            THEN <<T_end_date_eq \o PyStrOpt(self.end_date)>> ELSE <<>>)
      \o (IF ~IsNone(self.excludes) /\ Len(Val(self.excludes)) > 0
            THEN <<T_exclude_eq \o Join(<<",">>, Val(self.excludes))>>
          ELSE <<>>)
      \o (IF self.dry_run THEN <<T_dry_run>> ELSE <<>>)
      \o (IF ~IsNone(self.parallelism) /\ Val(self.parallelism) # 0
            THEN <<T_parallelism_eq \o IntToStr(Val(self.parallelism))>>
          ELSE <<>>)
      \o (IF self.no_partition THEN <<T_no_partition>> ELSE <<>>)

\* C5 as stated: the BigQuery command is exactly the fixed prefix, the
\* dataset.table token, --start-date=, then --end-date= iff end_date is
\* present (not None), --exclude= iff excludes is non-empty, --dry-run iff
\* dry_run, --parallelism= iff parallelism is present and non-zero,
\* --no-partition iff no_partition, in this order and nothing else.
C5_EndDateIffPresent ==
    (After("generate_backfill_command") /\ IsBigQuery) =>
        last.ret = BigQueryCommandClaimed(~IsNone(self.end_date))

\* C5 amended: the same command, with --end-date= iff end_date is present
\* and not the empty string.
C5_BigQueryCommandExact ==
    (After("generate_backfill_command") /\ IsBigQuery) =>
        /\ last.exc = "none"
        /\ last.ret = BigQueryCommandClaimed(~IsNone(self.end_date)
                                               /\ Val(self.end_date) # <<>>)

C5_Witness ==
    /\ After("generate_backfill_command")
    /\ IsBigQuery
    /\ last.ret = <<T_bqetl, T_query, T_backfill,
                    N_telemetry \o <<".">> \o N_events,
                    T_start_date_eq \o D_jan01,
                    T_end_date_eq \o D_jan31,
                    T_exclude_eq \o <<"a", ",", "b">>,
                    T_parallelism_eq \o <<"4">>,
                    T_no_partition>>

\* C6: rendering never fails and never re-validates: for either entity
\* generate_backfill_command() returns a token sequence in every state,
\* also when validation was never called and when validation has failed.
C6_RenderingNeverFails ==
    After("generate_backfill_command") =>
        /\ last.exc = "none"
        /\ Len(last.ret) >= 5

\* rendering a warehouse request without an end date after its validation
\* has failed
C6_Witness ==
    /\ After("generate_backfill_command")
    /\ IsBigQuery
    /\ IsNone(self.end_date)
    /\ date_status = "failed"
    /\ last.exc = "none"

\* C7: after any sequence of validate_date_range(), validate_regex_pattern()
\* and generate_backfill_command() calls on one instance, whether the
\* validations succeed or fail, every field of the instance has the value
\* it had at construction, and every generate_backfill_command() call
\* returns the token sequence the first one returned.
C7_InstanceUnchanged ==
    /\ self = orig
    /\ After("generate_backfill_command") => first_cmd = Some(last.ret)

\* a second rendering, after both validations have failed
C7_Witness ==
    /\ After("generate_backfill_command")
    /\ renders = 2
    /\ date_status = "failed"
    /\ regex_status = "failed"
    /\ first_cmd = Some(last.ret)

\* C8: the warehouse command does not depend on project_id: an instance
\* that differs from this one in project_id only renders the same tokens.
C8_ProjectIdNotRendered ==
    (After("generate_backfill_command") /\ IsBigQuery) =>
        \A p \in ProjectIds :
            BigQueryETLBackfillParams_generate_backfill_command(
                [self EXCEPT !.project_id = p]).ret = last.ret

C8_Witness ==
    /\ After("generate_backfill_command")
    /\ IsBigQuery
    /\ self.project_id = N_proj_b
    /\ last.exc = "none"

\* C9 as stated: the Airflow command starts with "timeout","60","airflow"
\* iff clear and dry_run; it contains "-y" iff clear and not dry_run; and
\* when clear is false it contains neither "timeout" nor "-y" and contains
\* "--donot-pickle".
C9_WrapperAndConfirmAnywhere ==
    (After("generate_backfill_command") /\ IsAirflow) =>
        /\ StartsWith(last.ret, <<T_timeout, T_60, T_airflow>>)
             <=> (self.clear /\ self.dry_run)
        /\ Contains(last.ret, T_y) <=> (self.clear /\ ~self.dry_run)
        /\ ~self.clear =>
             /\ ~Contains(last.ret, T_timeout)
             /\ ~Contains(last.ret, T_y)
             /\ Contains(last.ret, T_donot_pickle)

\* the tokens of an Airflow command that come before the optional "-t"
\* pair and the five trailing tokens "-s", start, "-e", end, dag_name
FixedPart(cmd) ==
    SubSeq(cmd, 1, Len(cmd) - 5 - (IF Truthy(self.task_regex) THEN 2 ELSE 0))

\* C9 amended: the same, with "contains" read on the tokens before the
\* optional "-t" pair and the five trailing tokens, which are the only
\* places where a field value appears.
C9_WrapperAndConfirm ==
    (After("generate_backfill_command") /\ IsAirflow) =>
        LET fixed == FixedPart(last.ret)
        IN  /\ StartsWith(last.ret, <<T_timeout, T_60, T_airflow>>)
                 <=> (self.clear /\ self.dry_run)
            /\ Contains(fixed, T_y) <=> (self.clear /\ ~self.dry_run)
            /\ ~self.clear =>
                 /\ ~Contains(fixed, T_timeout)
                 /\ ~Contains(fixed, T_y)
                 /\ Contains(fixed, T_donot_pickle)

\* a backfill (clear is false) of a workflow that is itself named "timeout"
C9_Witness ==
    /\ After("generate_backfill_command")
    /\ IsAirflow
    /\ ~self.clear
    /\ self.dag_name = N_timeout
    /\ Contains(last.ret, T_timeout)

\* C10: validation and rendering agree on when a task filter counts as set:
\* the Airflow command contains "-t" followed by task_regex exactly for the
\* non-empty task_regex values, which are the ones validate_regex_pattern()
\* compiles; so once validate_regex_pattern() has succeeded the value after
\* "-t" is a regular expression that compiled, and an empty filter is
\* neither checked (its validation cannot fail) nor rendered.
C10_FilterCheckedIffRendered ==
    IsAirflow =>
        /\ After("generate_backfill_command") =>
             /\ ContainsPair(last.ret, T_t, PyStrOpt(self.task_regex))
                  <=> Truthy(self.task_regex)
             /\ Contains(last.ret, T_t) <=> Truthy(self.task_regex)
             /\ (regex_status = "ok" /\ Contains(last.ret, T_t)) =>
                  \E i \in 1..(Len(last.ret) - 1) :
                      /\ last.ret[i] = T_t
                      /\ re_compile(last.ret[i + 1]) = "ok"
        /\ regex_status = "failed" => Truthy(self.task_regex)
        /\ (regex_status = "ok" /\ Truthy(self.task_regex)) =>
             re_compile(Val(self.task_regex)) = "ok"

C10_Witness ==
    /\ After("generate_backfill_command")
    /\ IsAirflow
    /\ regex_status = "ok"
    /\ self.task_regex = Some(R_load)
    /\ ContainsPair(last.ret, T_t, R_load)

====
